---- MODULE Spec2Model ----
(***************************************************************************)
(* Model of app.py: a Flask application that builds a prompt from an       *)
(* athlete name and an optional accomplishment, runs the "Social Media     *)
(* Manager" agent on it and returns the text, either whole (/generate_dm,  *)
(* /generate_dm_ui) or replayed word by word as an event stream            *)
(* (/stream_dm).                                                           *)
(*                                                                         *)
(* A Python str is a sequence of one-character strings.  The fixed pieces  *)
(* of the f-string templates and of the event framing are single elements  *)
(* longer than one character, so they never collide with input characters. *)
(* An optional value (a dict key that may be missing) is <<>> when missing *)
(* and <<v>> when present.                                                 *)
(***************************************************************************)
EXTENDS Naturals, Sequences, FiniteSets

\* ------------------------------------------------------------------ bounds
MaxNameLen == 1
MaxAccLen == 1
MaxOutLen == 3
MaxTextLen == 4
MaxPromptLen == 2
NumReqs == 2

\* ----------------------------------------------------------------- strings
Whitespace == {" ", "\n"}
Chars == {"a"} \cup Whitespace

Strings(n) == UNION {[1..k -> Chars] : k \in 0..n}

\* str.strip(): drop leading and trailing whitespace
RECURSIVE LStrip(_)
LStrip(s) ==
    IF s # <<>> /\ Head(s) \in Whitespace THEN LStrip(Tail(s)) ELSE s

RECURSIVE RStrip(_)
RStrip(s) ==
    IF s # <<>> /\ s[Len(s)] \in Whitespace
    THEN RStrip(SubSeq(s, 1, Len(s) - 1))
    ELSE s

Strip(s) == RStrip(LStrip(s))

\* str.split() with no argument: the maximal runs of non-whitespace
RECURSIVE SplitFrom(_, _, _, _)
SplitFrom(s, i, cur, acc) ==
    IF i > Len(s)
    THEN IF cur = <<>> THEN acc ELSE Append(acc, cur)
    ELSE IF s[i] \in Whitespace
         THEN SplitFrom(s, i + 1, <<>>, IF cur = <<>> THEN acc ELSE Append(acc, cur))
         ELSE SplitFrom(s, i + 1, Append(cur, s[i]), acc)

Split(s) == SplitFrom(s, 1, <<>>, <<>>)

\* concatenation of a sequence of strings
RECURSIVE Concat(_)
Concat(ss) == IF ss = <<>> THEN <<>> ELSE Head(ss) \o Concat(Tail(ss))

\* ------------------------------------------------- the prompt (user_message)
\* lines 70 and 96 (the source's dash is written "--": strings here are ASCII)
DefaultAccomplishment ==
    <<"No specific recent accomplishment provided -- mention their general skill / reputation in the sport.">>

TplAthlete == "\nAthlete: "
TplRecent == "\n\nRecent accomplishment/news:\n"
TplSend == "\n\nSend a DM to "
TplInvite == " inviting them for an interview.\n"

\* generate_dm, lines 69-79
UserMessageDm(name, acc) ==
    LET a == IF acc = <<>> THEN DefaultAccomplishment ELSE acc
    IN  <<TplAthlete>> \o name \o <<TplRecent>> \o a
        \o <<TplSend>> \o name \o <<TplInvite>>

\* the same builder without the default sentence
UserMessageStreamRaw(name, acc) ==
    <<TplAthlete>> \o name \o <<TplRecent>> \o acc
    \o <<TplSend>> \o name \o <<TplInvite>>

\* generate_dm_stream, lines 95-105
UserMessageStream(name, acc) ==
    LET a == IF acc = <<>> THEN DefaultAccomplishment ELSE acc
    IN  <<TplAthlete>> \o name \o <<TplRecent>> \o a
        \o <<TplSend>> \o name \o <<TplInvite>>

\* ------------------------------------------------------- the chunk emitter
\* the chunk of every word but the last ends in a space too
ChunkAlwaysSpace(ws, i) == ws[i + 1] \o <<" ">>

\* line 115, i as enumerate() counts it (from 0)
Chunk(ws, i) == ws[i + 1] \o (IF i < Len(ws) - 1 THEN <<" ">> ELSE <<>>)

\* ------------------------------------------------------------ event stream
Event(payload) == <<"data: ">> \o payload \o <<"\n", "\n">>
GeneratingEvent == Event(<<"Generating DM...">>)
DoneEvent == Event(<<"[DONE]">>)
Payload(e) == SubSeq(e, 2, Len(e) - 2)

\* ------------------------------------------------------------------- state
Reqs == 1..NumReqs
Routes == {"home", "ui", "json", "stream"}

VARIABLES
    config,          \* lines 17-58: the module-level clients, model and agent
    pc,              \* where each request is in its handler
    route,           \* the route a request came in on
    data,            \* request.form / request.get_json() of a request
    athlete_name,    \* the handler's local athlete_name
    accomplishment,  \* the handler's local accomplishment
    user_message,    \* the prompt handed to Runner.run, <<>> before it is built
    calls,           \* how many times the request called Runner.run
    final_output,    \* <<>> until Runner.run returned, then <<result.final_output>>
    status,          \* HTTP status of the response, 0 while there is none
    response,        \* what the handler returned
    events,          \* what stream_response has yielded so far
    words,           \* generate_dm_stream's words
    idx,             \* generate_dm_stream's position in words
    loop,            \* generate_dm's local loop: "none", "open", "closed"
    loops_created,   \* how many event loops the request created
    loop_is_current, \* asyncio.set_event_loop(loop) was called on the request's thread
    failed,          \* an exception left the handler or the response generator
    open_loops,      \* event loops created by generate_dm and not closed
    text,            \* chunk emitter on its own: the text it is given
    em_words,        \*   its words
    em_i,            \*   its loop counter
    em_chunks,       \*   the chunks it has yielded
    em_pc,           \*   "off", "start", "loop", "end"
    b_name,          \* prompt builders on their own: athlete_name
    b_acc,           \*   accomplishment
    b_dm,            \*   <<>> or <<user_message of generate_dm>>
    b_stream         \*   <<>> or <<user_message of generate_dm_stream>>

reqVars == <<pc, route, data, athlete_name, accomplishment, user_message, calls,
             final_output, status, response, events, words, idx, loop,
             loops_created, loop_is_current, failed>>
serverVars == <<config, reqVars, open_loops>>
emitterVars == <<text, em_words, em_i, em_chunks, em_pc>>
builderVars == <<b_name, b_acc, b_dm, b_stream>>
vars == <<serverVars, emitterVars, builderVars>>

\* lines 17-58
StartupConfig ==
    [sync_client |-> "OpenAI(GEMINI_API_KEY)",
     async_client |-> "AsyncOpenAI(GEMINI_API_KEY)",
     gemini_model |-> "OpenAIChatCompletionsModel(MODEL, async_client)",
     instructions |-> "instructions",
     social_media_manager |-> "Agent(Social Media Manager, instructions, gemini_model)"]

\* no handler rebinds the module-level objects: config is rebuilt by a request
GlobalsRebuilt ==
    config' = [config EXCEPT !.gemini_model = "OpenAIChatCompletionsModel(per request)"]

\* lines 68-168: no function assigns sync_client, async_client, gemini_model,
\* instructions or social_media_manager
GlobalsReadOnly == config' = config

\* a dict with the two keys the handlers look at, each missing or present
Bodies(names, accs) ==
    [athlete_name : {<<>>} \cup {<<n>> : n \in names},
     accomplishment : {<<>>} \cup {<<a>> : a \in accs}]

Has(d, k) == d[k] # <<>>
Get(d, k, default) == IF Has(d, k) THEN d[k][1] ELSE default
\* `not data`: None or an empty dict
NotData(d) == ~Has(d, "athlete_name") /\ ~Has(d, "accomplishment")

NoResponse == [kind |-> "none", dm |-> <<>>, athlete_name |-> <<>>, accomplishment |-> <<>>]
Page(dm, name, acc) ==
    [kind |-> "index.html", dm |-> dm, athlete_name |-> name, accomplishment |-> acc]
JsonDm(dm) == [kind |-> "json dm", dm |-> dm, athlete_name |-> <<>>, accomplishment |-> <<>>]
JsonError ==
    [kind |-> "json error", dm |-> <<"Missing 'athlete_name' in request body">>,
     athlete_name |-> <<>>, accomplishment |-> <<>>]
EventStream ==
    [kind |-> "text/event-stream", dm |-> <<>>, athlete_name |-> <<>>, accomplishment |-> <<>>]
ServerError ==
    [kind |-> "exception", dm |-> <<>>, athlete_name |-> <<>>, accomplishment |-> <<>>]
PleaseProvide == <<"Please provide an athlete name.">>

IdleData == [athlete_name |-> <<>>, accomplishment |-> <<>>]

ServerInit ==
    /\ config = StartupConfig
    /\ pc = [r \in Reqs |-> "idle"]
    /\ route = [r \in Reqs |-> "none"]
    /\ data = [r \in Reqs |-> IdleData]
    /\ athlete_name = [r \in Reqs |-> <<>>]
    /\ accomplishment = [r \in Reqs |-> <<>>]
    /\ user_message = [r \in Reqs |-> <<>>]
    /\ calls = [r \in Reqs |-> 0]
    /\ final_output = [r \in Reqs |-> <<>>]
    /\ status = [r \in Reqs |-> 0]
    /\ response = [r \in Reqs |-> NoResponse]
    /\ events = [r \in Reqs |-> <<>>]
    /\ words = [r \in Reqs |-> <<>>]
    /\ idx = [r \in Reqs |-> 0]
    /\ loop = [r \in Reqs |-> "none"]
    /\ loops_created = [r \in Reqs |-> 0]
    /\ loop_is_current = [r \in Reqs |-> FALSE]
    /\ failed = [r \in Reqs |-> FALSE]
    /\ open_loops = 0

EmitterIdle ==
    /\ text = <<>>
    /\ em_words = <<>>
    /\ em_i = 0
    /\ em_chunks = <<>>
    /\ em_pc = "off"

BuilderIdle ==
    /\ b_name = <<>>
    /\ b_acc = <<>>
    /\ b_dm = <<>>
    /\ b_stream = <<>>

Init == ServerInit /\ EmitterIdle /\ BuilderIdle

\* ---------------------------------------------------------------- requests
\* a request arrives on one of the routes
Receive(r, bodies) ==
    /\ pc[r] = "idle"
    /\ \E rt \in Routes, d \in bodies :
          /\ route' = [route EXCEPT ![r] = rt]
          /\ data' = [data EXCEPT ![r] = IF rt = "home" THEN IdleData ELSE d]
    /\ pc' = [pc EXCEPT ![r] = "received"]
    /\ GlobalsReadOnly
    /\ UNCHANGED <<athlete_name, accomplishment, user_message, calls, final_output,
                   status, response, events, words, idx, loop, loops_created,
                   loop_is_current, failed, open_loops, emitterVars, builderVars>>

\* lines 122-124
home(r) ==
    /\ pc[r] = "received" /\ route[r] = "home"
    /\ status' = [status EXCEPT ![r] = 200]
    /\ response' = [response EXCEPT ![r] = Page(<<>>, <<>>, <<>>)]
    /\ pc' = [pc EXCEPT ![r] = "responded"]
    /\ GlobalsReadOnly
    /\ UNCHANGED <<route, data, athlete_name, accomplishment, user_message, calls,
                   final_output, events, words, idx, loop, loops_created,
                   loop_is_current, failed, open_loops, emitterVars, builderVars>>

\* a handler answers without calling generate_dm
Reject(r, st, resp) ==
    /\ status' = [status EXCEPT ![r] = st]
    /\ response' = [response EXCEPT ![r] = resp]
    /\ pc' = [pc EXCEPT ![r] = "responded"]
    /\ UNCHANGED <<athlete_name, accomplishment, user_message, calls, loop,
                   loops_created, loop_is_current, open_loops>>

\* generate_dm from its first line to the await of Runner.run, lines 68-86
generate_dm_call(r, name, acc) ==
    /\ athlete_name' = [athlete_name EXCEPT ![r] = name]
    /\ accomplishment' = [accomplishment EXCEPT ![r] = acc]
    /\ user_message' = [user_message EXCEPT ![r] = UserMessageDm(name, acc)]
    /\ loop' = [loop EXCEPT ![r] = "open"]
    /\ loops_created' = [loops_created EXCEPT ![r] = @ + 1]
    /\ loop_is_current' = [loop_is_current EXCEPT ![r] = TRUE]
    /\ open_loops' = open_loops + 1
    /\ calls' = [calls EXCEPT ![r] = @ + 1]
    /\ pc' = [pc EXCEPT ![r] = "awaiting"]
    /\ UNCHANGED <<status, response>>

\* lines 126-134
generate_dm_ui(r) ==
    /\ pc[r] = "received" /\ route[r] = "ui"
    /\ LET name == Strip(Get(data[r], "athlete_name", <<>>))
           acc == Strip(Get(data[r], "accomplishment", <<>>))
       IN  IF name = <<>>
           THEN Reject(r, 200, Page(PleaseProvide, <<>>, <<>>))
           ELSE generate_dm_call(r, name, acc)
    /\ GlobalsReadOnly
    /\ UNCHANGED <<route, data, final_output, events, words, idx, failed,
                   emitterVars, builderVars>>

\* lines 137-146
generate_dm_endpoint(r) ==
    /\ pc[r] = "received" /\ route[r] = "json"
    /\ IF NotData(data[r]) \/ ~Has(data[r], "athlete_name")
       THEN Reject(r, 400, JsonError)
       ELSE generate_dm_call(r, Strip(data[r].athlete_name[1]),
                             Strip(Get(data[r], "accomplishment", <<>>)))
    /\ GlobalsReadOnly
    /\ UNCHANGED <<route, data, final_output, events, words, idx, failed,
                   emitterVars, builderVars>>

\* Runner.run returned out: lines 86-89, then line 135 or 147
generate_dm_returns(r, out) ==
    /\ pc[r] = "awaiting"
    /\ final_output' = [final_output EXCEPT ![r] = <<out>>]
    /\ loop' = [loop EXCEPT ![r] = "closed"]
    /\ open_loops' = open_loops - 1
    /\ status' = [status EXCEPT ![r] = 200]
    /\ response' = [response EXCEPT ![r] =
          IF route[r] = "ui"
          THEN Page(Strip(out), athlete_name[r], accomplishment[r])
          ELSE JsonDm(Strip(out))]
    /\ pc' = [pc EXCEPT ![r] = "responded"]
    /\ GlobalsReadOnly
    /\ UNCHANGED <<route, data, athlete_name, accomplishment, user_message, calls,
                   events, words, idx, loops_created, loop_is_current, failed,
                   emitterVars, builderVars>>

\* the exception leaves generate_dm with its loop still open
generate_dm_raises_no_close(r) ==
    /\ pc[r] = "awaiting"
    /\ failed' = [failed EXCEPT ![r] = TRUE]
    /\ status' = [status EXCEPT ![r] = 500]
    /\ response' = [response EXCEPT ![r] = ServerError]
    /\ pc' = [pc EXCEPT ![r] = "responded"]
    /\ GlobalsReadOnly
    /\ UNCHANGED <<route, data, athlete_name, accomplishment, user_message, calls,
                   final_output, events, words, idx, loop, open_loops, loops_created,
                   loop_is_current, emitterVars, builderVars>>

\* the call is made again after it raised
generate_dm_raises_retry(r) ==
    /\ pc[r] = "awaiting"
    /\ calls[r] < 2
    /\ calls' = [calls EXCEPT ![r] = @ + 1]
    /\ GlobalsReadOnly
    /\ UNCHANGED <<pc, route, data, athlete_name, accomplishment, user_message,
                   final_output, status, response, events, words, idx, loop,
                   open_loops, loops_created, loop_is_current, failed,
                   emitterVars, builderVars>>

\* Runner.run raised: the finally of lines 88-89, then the exception leaves the
\* handler
generate_dm_raises(r) ==
    /\ pc[r] = "awaiting"
    /\ loop' = [loop EXCEPT ![r] = "closed"]
    /\ open_loops' = open_loops - 1
    /\ failed' = [failed EXCEPT ![r] = TRUE]
    /\ status' = [status EXCEPT ![r] = 500]
    /\ response' = [response EXCEPT ![r] = ServerError]
    /\ pc' = [pc EXCEPT ![r] = "responded"]
    /\ GlobalsReadOnly
    /\ UNCHANGED <<route, data, athlete_name, accomplishment, user_message, calls,
                   final_output, events, words, idx, loops_created, loop_is_current,
                   emitterVars, builderVars>>

\* lines 149-168: the handler returns the Response around stream_response()
stream_dm(r) ==
    /\ pc[r] = "received" /\ route[r] = "stream"
    /\ IF NotData(data[r]) \/ ~Has(data[r], "athlete_name")
       THEN /\ Reject(r, 400, JsonError)
       ELSE /\ athlete_name' = [athlete_name EXCEPT ![r] = Strip(data[r].athlete_name[1])]
            /\ accomplishment' = [accomplishment EXCEPT ![r] =
                   Strip(Get(data[r], "accomplishment", <<>>))]
            /\ status' = [status EXCEPT ![r] = 200]
            /\ response' = [response EXCEPT ![r] = EventStream]
            /\ pc' = [pc EXCEPT ![r] = "stream_open"]
            /\ UNCHANGED <<user_message, calls, loop, loops_created, loop_is_current,
                           open_loops>>
    /\ GlobalsReadOnly
    /\ UNCHANGED <<route, data, final_output, events, words, idx, failed,
                   emitterVars, builderVars>>

\* generate_dm_stream is entered before anything was yielded
stream_response_first_late(r) ==
    /\ pc[r] = "stream_open"
    /\ user_message' = [user_message EXCEPT ![r] =
          UserMessageStream(athlete_name[r], accomplishment[r])]
    /\ calls' = [calls EXCEPT ![r] = @ + 1]
    /\ pc' = [pc EXCEPT ![r] = "stream_awaiting"]
    /\ GlobalsReadOnly
    /\ UNCHANGED <<route, data, athlete_name, accomplishment, final_output, status,
                   response, events, words, idx, loop, loops_created,
                   loop_is_current, failed, open_loops, emitterVars, builderVars>>

\* line 159
stream_response_first(r) ==
    /\ pc[r] = "stream_open"
    /\ events' = [events EXCEPT ![r] = Append(@, GeneratingEvent)]
    /\ pc' = [pc EXCEPT ![r] = "stream_generating"]
    /\ GlobalsReadOnly
    /\ UNCHANGED <<route, data, athlete_name, accomplishment, user_message, calls,
                   final_output, status, response, words, idx, loop, loops_created,
                   loop_is_current, failed, open_loops, emitterVars, builderVars>>

\* the prompt is built from the fields of whichever request was parsed last
generate_dm_stream_call_shared(r) ==
    /\ pc[r] = "stream_generating"
    /\ \E q \in Reqs :
          /\ pc[q] \notin {"idle", "received"}
          /\ user_message' = [user_message EXCEPT ![r] =
                UserMessageStream(athlete_name[q], accomplishment[q])]
    /\ calls' = [calls EXCEPT ![r] = @ + 1]
    /\ pc' = [pc EXCEPT ![r] = "stream_awaiting"]
    /\ GlobalsReadOnly
    /\ UNCHANGED <<route, data, athlete_name, accomplishment, final_output, status,
                   response, events, words, idx, loop, loops_created,
                   loop_is_current, failed, open_loops, emitterVars, builderVars>>

\* line 160 enters generate_dm_stream: lines 94-109, to the await of Runner.run
generate_dm_stream_call(r) ==
    /\ pc[r] = "stream_generating"
    /\ user_message' = [user_message EXCEPT ![r] =
          UserMessageStream(athlete_name[r], accomplishment[r])]
    /\ calls' = [calls EXCEPT ![r] = @ + 1]
    /\ pc' = [pc EXCEPT ![r] = "stream_awaiting"]
    /\ GlobalsReadOnly
    /\ UNCHANGED <<route, data, athlete_name, accomplishment, final_output, status,
                   response, events, words, idx, loop, loops_created,
                   loop_is_current, failed, open_loops, emitterVars, builderVars>>

\* Runner.run returned out: lines 109-113
generate_dm_stream_returns(r, out) ==
    /\ pc[r] = "stream_awaiting"
    /\ final_output' = [final_output EXCEPT ![r] = <<out>>]
    /\ words' = [words EXCEPT ![r] = Split(Strip(out))]
    /\ idx' = [idx EXCEPT ![r] = 0]
    /\ pc' = [pc EXCEPT ![r] = "stream_words"]
    /\ GlobalsReadOnly
    /\ UNCHANGED <<route, data, athlete_name, accomplishment, user_message, calls,
                   status, response, events, loop, loops_created, loop_is_current,
                   failed, open_loops, emitterVars, builderVars>>

\* Runner.run raised: the exception leaves generate_dm_stream and stream_response
generate_dm_stream_raises(r) ==
    /\ pc[r] = "stream_awaiting"
    /\ failed' = [failed EXCEPT ![r] = TRUE]
    /\ pc' = [pc EXCEPT ![r] = "responded"]
    /\ GlobalsReadOnly
    /\ UNCHANGED <<route, data, athlete_name, accomplishment, user_message, calls,
                   final_output, status, response, events, words, idx, loop,
                   loops_created, loop_is_current, open_loops, emitterVars,
                   builderVars>>

\* lines 114-116 and 160-161: one word is yielded and framed as an event
stream_chunk(r) ==
    /\ pc[r] = "stream_words"
    /\ idx[r] < Len(words[r])
    /\ events' = [events EXCEPT ![r] = Append(@, Event(Chunk(words[r], idx[r])))]
    /\ idx' = [idx EXCEPT ![r] = @ + 1]
    /\ GlobalsReadOnly
    /\ UNCHANGED <<pc, route, data, athlete_name, accomplishment, user_message, calls,
                   final_output, status, response, words, loop, loops_created,
                   loop_is_current, failed, open_loops, emitterVars, builderVars>>

\* generate_dm_stream is exhausted: line 162
stream_done(r) ==
    /\ pc[r] = "stream_words"
    /\ idx[r] = Len(words[r])
    /\ events' = [events EXCEPT ![r] = Append(@, DoneEvent)]
    /\ pc' = [pc EXCEPT ![r] = "responded"]
    /\ GlobalsReadOnly
    /\ UNCHANGED <<route, data, athlete_name, accomplishment, user_message, calls,
                   final_output, status, response, words, idx, loop, loops_created,
                   loop_is_current, failed, open_loops, emitterVars, builderVars>>

\* the response was delivered: the request and everything local to it are gone
Finish(r) ==
    /\ pc[r] = "responded"
    /\ pc' = [pc EXCEPT ![r] = "idle"]
    /\ route' = [route EXCEPT ![r] = "none"]
    /\ data' = [data EXCEPT ![r] = IdleData]
    /\ athlete_name' = [athlete_name EXCEPT ![r] = <<>>]
    /\ accomplishment' = [accomplishment EXCEPT ![r] = <<>>]
    /\ user_message' = [user_message EXCEPT ![r] = <<>>]
    /\ calls' = [calls EXCEPT ![r] = 0]
    /\ final_output' = [final_output EXCEPT ![r] = <<>>]
    /\ status' = [status EXCEPT ![r] = 0]
    /\ response' = [response EXCEPT ![r] = NoResponse]
    /\ events' = [events EXCEPT ![r] = <<>>]
    /\ words' = [words EXCEPT ![r] = <<>>]
    /\ idx' = [idx EXCEPT ![r] = 0]
    /\ loop' = [loop EXCEPT ![r] = "none"]
    /\ loops_created' = [loops_created EXCEPT ![r] = 0]
    /\ loop_is_current' = [loop_is_current EXCEPT ![r] = FALSE]
    /\ failed' = [failed EXCEPT ![r] = FALSE]
    /\ GlobalsReadOnly
    /\ UNCHANGED <<open_loops, emitterVars, builderVars>>

\* ------------------------------------------------------------ specifications
Names == Strings(MaxNameLen)
Accs == Strings(MaxAccLen)
Outputs == Strings(MaxOutLen)

\* one request at a time, one after the other
Next ==
    \/ Receive(1, Bodies(Names, Accs))
    \/ home(1)
    \/ generate_dm_ui(1)
    \/ generate_dm_endpoint(1)
    \/ \E out \in Outputs : generate_dm_returns(1, out)
    \/ generate_dm_raises(1)
    \/ stream_dm(1)
    \/ stream_response_first(1)
    \/ generate_dm_stream_call(1)
    \/ \E out \in Outputs : generate_dm_stream_returns(1, out)
    \/ generate_dm_stream_raises(1)
    \/ stream_chunk(1)
    \/ stream_done(1)
    \/ Finish(1)

Spec == Init /\ [][Next]_vars

\* any number of requests in flight at once, each on its own thread
\* {}, {"athlete_name": "a"} and {"athlete_name": "aa", "accomplishment": "a"}
ConcBodies ==
    {[athlete_name |-> <<>>, accomplishment |-> <<>>],
     [athlete_name |-> <<<<"a">>>>, accomplishment |-> <<>>],
     [athlete_name |-> <<<<"a", "a">>>>, accomplishment |-> <<<<"a">>>>]}
ConcOutputs == {<<"a">>, <<"a", " ", "a">>}

Handle(r) ==
    \/ Receive(r, ConcBodies)
    \/ home(r)
    \/ generate_dm_ui(r)
    \/ generate_dm_endpoint(r)
    \/ \E out \in ConcOutputs : generate_dm_returns(r, out)
    \/ generate_dm_raises(r)
    \/ stream_dm(r)
    \/ stream_response_first(r)
    \/ generate_dm_stream_call(r)
    \/ \E out \in ConcOutputs : generate_dm_stream_returns(r, out)
    \/ generate_dm_stream_raises(r)
    \/ stream_chunk(r)
    \/ stream_done(r)
    \/ Finish(r)

NextConc == \E r \in Reqs : Handle(r)

SpecConc == Init /\ [][NextConc]_vars

\* ------------------------------------------- the chunk emitter on its own
\* line 113
emit_split ==
    /\ em_pc = "start"
    /\ em_words' = Split(text)
    /\ em_i' = 0
    /\ em_pc' = "loop"
    /\ UNCHANGED <<text, em_chunks, serverVars, builderVars>>

\* lines 114-116: one turn of the loop
emit_yield ==
    /\ em_pc = "loop"
    /\ em_i < Len(em_words)
    /\ em_chunks' = Append(em_chunks, Chunk(em_words, em_i))
    /\ em_i' = em_i + 1
    /\ UNCHANGED <<text, em_words, em_pc, serverVars, builderVars>>

\* the loop of line 114 is over: the generator is exhausted
emit_end ==
    /\ em_pc = "loop"
    /\ em_i = Len(em_words)
    /\ em_pc' = "end"
    /\ UNCHANGED <<text, em_words, em_i, em_chunks, serverVars, builderVars>>

InitEmitter ==
    /\ ServerInit
    /\ BuilderIdle
    /\ text \in Strings(MaxTextLen)
    /\ em_words = <<>>
    /\ em_i = 0
    /\ em_chunks = <<>>
    /\ em_pc = "start"

NextEmitter == emit_split \/ emit_yield \/ emit_end

SpecEmitter == InitEmitter /\ [][NextEmitter]_vars

\* ------------------------------------------ the prompt builders on their own
\* generate_dm, lines 69-79
build_dm ==
    /\ b_dm = <<>>
    /\ b_dm' = <<UserMessageDm(b_name, b_acc)>>
    /\ UNCHANGED <<b_name, b_acc, b_stream, serverVars, emitterVars>>

\* generate_dm_stream, lines 95-105
build_stream ==
    /\ b_stream = <<>>
    /\ b_stream' = <<UserMessageStream(b_name, b_acc)>>
    /\ UNCHANGED <<b_name, b_acc, b_dm, serverVars, emitterVars>>

InitBuilder ==
    /\ ServerInit
    /\ EmitterIdle
    /\ b_name \in Strings(MaxPromptLen)
    /\ b_acc \in Strings(MaxPromptLen)
    /\ b_dm = <<>>
    /\ b_stream = <<>>

NextBuilder == build_dm \/ build_stream

SpecBuilder == InitBuilder /\ [][NextBuilder]_vars

\* ------------------------------------------------------------------ claims
PostRoutes == {"ui", "json", "stream"}
Handled(r) == pc[r] \notin {"idle", "received"}
IsTrimmed(s) == s = <<>> \/ (s[1] \notin Whitespace /\ s[Len(s)] \notin Whitespace)
\* the events of a request between the first and the last one
Middle(ev) == [i \in 1..(Len(ev) - 2) |-> ev[i + 1]]
\* the word-chunk events among ev
ChunkEvents(ev) == SelectSeq(ev, LAMBDA e : e \notin {GeneratingEvent, DoneEvent})
Payloads(ev) == [i \in 1..Len(ev) |-> Payload(ev[i])]

\* C1: a /stream_dm request with a valid body whose completion call succeeded
\* has emitted exactly one "Generating DM..." event, then word-chunk events
\* whose payloads concatenated equal the trimmed generated message, then exactly
\* one "[DONE]" event, and nothing after it.  (Stated for bodies whose
\* athlete_name is non-empty after trimming.)
C1_StreamEqualsMessage ==
    \A r \in Reqs :
        (route[r] = "stream" /\ pc[r] = "responded" /\ status[r] = 200 /\ ~failed[r]
         /\ athlete_name[r] # <<>>)
        => LET ev == events[r]
               n == Len(ev)
           IN  /\ n >= 2
               /\ ev[1] = GeneratingEvent
               /\ ev[n] = DoneEvent
               /\ \A i \in 2..(n - 1) : ev[i] \notin {GeneratingEvent, DoneEvent}
               /\ Concat(Payloads(Middle(ev))) = Strip(final_output[r][1])

\* C2: on the three POST routes a request whose athlete_name is missing or empty
\* after trimming is answered with a validation failure (400 and an error on the
\* JSON routes, the inline message on the UI route) and never calls the
\* completion; the completion is only called with a non-empty athlete_name.
C2_EmptyNameRejected ==
    \A r \in Reqs :
        /\ (route[r] \in PostRoutes /\ Handled(r)
            /\ Strip(Get(data[r], "athlete_name", <<>>)) = <<>>)
           => /\ calls[r] = 0
              /\ pc[r] = "responded"
              /\ IF route[r] = "ui"
                 THEN response[r] = Page(PleaseProvide, <<>>, <<>>)
                 ELSE status[r] = 400 /\ response[r] = JsonError
        /\ calls[r] > 0 => athlete_name[r] # <<>>

\* C3: a /generate_dm request that carries an athlete_name and whose completion
\* call returned is answered 200 with a "dm" that is a non-empty string without
\* leading or trailing whitespace.  (Stated for an athlete_name that is
\* non-empty after trimming.)
C3_DmNonEmptyTrimmed ==
    \A r \in Reqs :
        (route[r] = "json" /\ Has(data[r], "athlete_name") /\ athlete_name[r] # <<>>
         /\ final_output[r] # <<>>)
        => /\ status[r] = 200
           /\ response[r].kind = "json dm"
           /\ response[r].dm # <<>>
           /\ IsTrimmed(response[r].dm)

\* the part of a prompt between two pieces of the template
Between(m, from, to) ==
    IF \E i, j \in 1..Len(m) : i < j /\ m[i] = from /\ m[j] = to
    THEN LET i == CHOOSE i \in 1..Len(m) : m[i] = from
             j == CHOOSE j \in 1..Len(m) : m[j] = to
         IN  SubSeq(m, i + 1, j - 1)
    ELSE <<"malformed">>
\* the prompt names the athlete in both places and its accomplishment section is
\* the given text, or the default sentence when none is given
PromptHolds(m, name, acc) ==
    /\ Between(m, TplAthlete, TplRecent) = name
    /\ Between(m, TplSend, TplInvite) = name
    /\ Between(m, TplRecent, TplSend) = (IF acc = <<>> THEN DefaultAccomplishment ELSE acc)
    /\ Between(m, TplRecent, TplSend) # <<>>
    /\ m[1] = TplAthlete /\ m[Len(m)] = TplInvite

\* C4: for a non-empty athlete_name the prompt of generate_dm and the prompt of
\* generate_dm_stream contain the name and, as accomplishment section, the
\* accomplishment verbatim when it is non-empty and the default sentence when
\* it is empty; the section is never empty; the two prompts are identical.
C4_PromptContents ==
    b_name # <<>> =>
        /\ b_dm # <<>> => PromptHolds(b_dm[1], b_name, b_acc)
        /\ b_stream # <<>> => PromptHolds(b_stream[1], b_name, b_acc)
        /\ (b_dm # <<>> /\ b_stream # <<>>) => b_dm = b_stream
C4_Witness ==
    /\ b_name # <<>> /\ b_acc = <<>>
    /\ b_dm # <<>> /\ b_stream # <<>>
    /\ Between(b_stream[1], TplRecent, TplSend) = DefaultAccomplishment

\* the whitespace-delimited tokens of t, by position: a token starts where a
\* non-whitespace character follows whitespace or the start of t
TokenStarts(t) ==
    {i \in 1..Len(t) : t[i] \notin Whitespace /\ (i = 1 \/ t[i - 1] \in Whitespace)}
TokenEnd(t, i) ==
    CHOOSE j \in i..Len(t) :
        /\ \A k \in i..j : t[k] \notin Whitespace
        /\ (j = Len(t) \/ t[j + 1] \in Whitespace)
Token(t, k) ==
    LET i == CHOOSE i \in TokenStarts(t) :
                 Cardinality({j \in TokenStarts(t) : j <= i}) = k
    IN  SubSeq(t, i, TokenEnd(t, i))
NumTokens(t) == Cardinality(TokenStarts(t))

\* C5: the chunk emitter yields one chunk per whitespace-delimited token, in the
\* tokens' order; every chunk but the last is the token and one space, the last
\* is the token alone, no chunk is empty, and the sequence ends after the last
\* token (an empty text yields nothing).
C5_ChunkPerToken ==
    /\ Len(em_chunks) <= NumTokens(text)
    /\ \A k \in 1..Len(em_chunks) :
          /\ em_chunks[k] # <<>>
          /\ em_chunks[k] =
                Token(text, k) \o (IF k < NumTokens(text) THEN <<" ">> ELSE <<>>)
    /\ em_pc = "end" => Len(em_chunks) = NumTokens(text)
    /\ em_pc \in {"start", "loop"} => ENABLED NextEmitter
C5_Witness ==
    /\ em_pc = "end"
    /\ Len(em_chunks) = 2
    /\ text[1] \in Whitespace
    /\ Len(text) = 4

C7_NoRetry ==
    \A r \in Reqs :
        /\ calls[r] <= 1
        /\ failed[r] =>
              /\ calls[r] = 1
              /\ pc[r] = "responded"
              /\ final_output[r] = <<>>
              /\ route[r] = "stream" => events[r] = <<GeneratingEvent>>
              /\ route[r] \in {"ui", "json"} => (status[r] = 500 /\ response[r] = ServerError)
C7_Witness ==
    \E r \in Reqs : failed[r] /\ route[r] = "stream" /\ events[r] = <<GeneratingEvent>>

\* everything a request owns
Own(r) ==
    <<pc[r], route[r], data[r], athlete_name[r], accomplishment[r], user_message[r],
      calls[r], final_output[r], status[r], response[r], events[r], words[r], idx[r],
      loop[r], loops_created[r], loop_is_current[r], failed[r]>>
\* the prompt of a request, from its own body alone
OwnPrompt(r) ==
    LET name == Strip(Get(data[r], "athlete_name", <<>>))
        acc == Strip(Get(data[r], "accomplishment", <<>>))
    IN  IF route[r] = "stream" THEN UserMessageStream(name, acc)
        ELSE UserMessageDm(name, acc)
\* the response of a request, from the output of its own call alone
OwnResponse(r) ==
    /\ (final_output[r] # <<>> /\ route[r] = "json")
       => response[r] = JsonDm(Strip(final_output[r][1]))
    /\ (final_output[r] # <<>> /\ route[r] = "ui")
       => response[r].dm = Strip(final_output[r][1])
    /\ (final_output[r] # <<>> /\ route[r] = "stream")
       => LET ws == Split(Strip(final_output[r][1]))
              ch == ChunkEvents(events[r])
          IN  /\ Len(ch) = idx[r]
              /\ \A i \in 1..Len(ch) : ch[i] = Event(Chunk(ws, i - 1))
    /\ final_output[r] = <<>> => ChunkEvents(events[r]) = <<>>

\* C8: under any interleaving of requests in flight, the response of a request
\* (dm text or word events) comes from the prompt built from its own
\* athlete_name and accomplishment, and a step of one request leaves everything
\* the other requests own as it was.
C8_RequestsIndependent ==
    /\ [](\A r \in Reqs :
             /\ user_message[r] # <<>> => user_message[r] = OwnPrompt(r)
             /\ OwnResponse(r))
    /\ [][\A r, q \in Reqs : (r # q /\ Own(r)' # Own(r)) => Own(q)' = Own(q)]_vars
C8_Witness ==
    \E r, q \in Reqs :
        /\ r # q
        /\ pc[r] = "stream_words" /\ idx[r] = 1
        /\ pc[q] = "awaiting"
        /\ athlete_name[r] # athlete_name[q]

\* C9: the model client, the model and the persona instructions keep their
\* start-up values through every request on every route, whether it succeeds,
\* fails validation or fails upstream.
C9_GlobalsKeepStartupValues == config = StartupConfig
C9_Witness ==
    \E r \in Reqs : pc[r] = "responded" /\ failed[r] /\ config = StartupConfig

\* C10: every call of generate_dm creates exactly one event loop and closes it
\* before the call ends, whether Runner.run returns or raises; once no call of
\* generate_dm is running, none of its loops is open.
C10_LoopClosed ==
    /\ \A r \in Reqs :
          /\ loops_created[r] <= 1
          /\ pc[r] = "awaiting" => (loops_created[r] = 1 /\ loop[r] = "open")
          /\ (route[r] \in {"ui", "json"} /\ pc[r] = "responded" /\ calls[r] > 0)
             => (loops_created[r] = 1 /\ loop[r] = "closed")
    /\ open_loops = Cardinality({r \in Reqs : pc[r] = "awaiting"})
C10_Witness ==
    \E r \in Reqs :
        /\ route[r] \in {"ui", "json"} /\ pc[r] = "responded"
        /\ failed[r] /\ loop[r] = "closed" /\ open_loops = 0

====
